---- MODULE Spec2Model ----
(***************************************************************************)
(* A model of zipkin_opentracing/src/opentracing.cc: the OpenTracing        *)
(* adapter of the zipkin tracer.  One OtSpan is followed from               *)
(* OtTracer::StartSpanWithOptions through SetTag / SetOperationName /       *)
(* FinishWithOptions calls issued by several threads to ~OtSpan.            *)
(*                                                                         *)
(* Time points are integer nanosecond counts since the clock's epoch; the  *)
(* value 0 is the default-constructed time point SystemTime() /            *)
(* SteadyTime().  Optional fields (parent id, duration) are sequences of   *)
(* length 0 or 1.                                                          *)
(***************************************************************************)
EXTENDS Integers, Sequences, FiniteSets, TLC

\* ------------------------------------------------------------------ bounds

\* How many times the clocks advance in one behaviour.
MaxTicks == 1
\* The longest reference list handed to start_span (SpecStart).
MaxRefs == 3
\* The largest identifier the generator draws.
MaxId == 2

\* ------------------------------------------------------- program constants

\* std::chrono::microseconds against the nanosecond time points.
NanosPerMicro == 1000

\* ------------------------------------------------------------ input domains

Threads == {1, 2}
NoThread == 0

Keys == {"k1", "k2"}
\* ot::Value: a bool, an integer and a string whose text is that integer's.
Vals == {"bool:true", "int:7", "str:7"}
NoValue == "<absent>"

Ids == 1..MaxId
\* The clocks' readings at the start of a behaviour and the step they advance by.
Clock == [steady0 |-> 5300, system0 |-> 20900, tick |-> 1700]

\* Time points a caller may pass as hints; 0 is the default time point.
SteadyHints == {0, 4100, 6400}
SystemHints == {0, 19500}
FinishHints == {0, 6400}

\* The three carrier formats of Inject and Extract, and the entries the tracer
\* on the other side of a boundary may have put into a carrier.
Formats == {"binary", "text_map", "http_headers"}
Entries == {[key |-> "x-b3-traceid", value |-> 11],
            [key |-> "x-b3-spanid", value |-> 12]}

\* ------------------------------------------------------------------- state

VARIABLES
  phase,                    \* "none" | "live" | "destroyed": the OtSpan object
  steady_now, system_now,   \* SteadyClock::now(), SystemClock::now()
  ticks,                    \* clock advances so far
  span_,                    \* the zipkin::Span record (SpanPtr span_)
  tags_,                    \* std::unordered_map<std::string, Value> tags_
  is_finished_,             \* std::atomic<bool> is_finished_
  mutex_,                   \* std::mutex mutex_: the holder, or NoThread
  span_context_,            \* OtSpanContext span_context_
  start_steady_timestamp_,  \* SteadyTime start_steady_timestamp_
  reporter,                 \* the records handed to the tracer's reporter
  pc,                       \* each thread's position
  frame,                    \* each thread's arguments and locals
  carrier,                  \* what each carrier (stream, text map, headers) holds
  returned,                 \* what the last Inject or Extract returned, if any
  hist                      \* history of the behaviour, read by the properties only

vars == <<phase, steady_now, system_now, ticks, span_, tags_, is_finished_,
          mutex_, span_context_, start_steady_timestamp_, reporter, pc, frame,
          carrier, returned, hist>>

\* The variables of carrier propagation; no operation of a span touches them.
wire == <<carrier, returned>>

\* ----------------------------------------------------------------- helpers

\* An absent optional and a present one.
None == <<>>
Some(x) == <<x>>

\* std::chrono::duration_cast to a coarser unit: integer division that
\* truncates toward zero.
DurationCast(count, per) ==
  IF count >= 0 THEN count \div per ELSE -((-count) \div per)

\* ot::convert_time_point<SystemClock>(steady time point): both clocks are
\* read and the distance of the time point from "now" is carried over.
ConvertToSystem(steady_time) == system_now + (steady_time - steady_now)

\* ot::convert_time_point<SteadyClock>(system time point).
ConvertToSteady(system_time) == steady_now + (system_time - system_now)

\* Mutant of computeStartTimestamps: with only the steady hint given, the
\* system time is read from the clock instead of converted from the hint.
computeStartTimestampsNoConvert(start_system_timestamp, start_steady_timestamp) ==
  IF start_system_timestamp = 0 /\ start_steady_timestamp = 0
    THEN <<system_now, steady_now>>
  ELSE IF start_system_timestamp = 0
    THEN <<system_now, start_steady_timestamp>>
  ELSE IF start_steady_timestamp = 0
    THEN <<start_system_timestamp, ConvertToSteady(start_system_timestamp)>>
  ELSE <<start_system_timestamp, start_steady_timestamp>>

\* computeStartTimestamps: <<system, steady>>.
computeStartTimestamps(start_system_timestamp, start_steady_timestamp) ==
  IF start_system_timestamp = 0 /\ start_steady_timestamp = 0
    THEN <<system_now, steady_now>>
  ELSE IF start_system_timestamp = 0
    THEN <<ConvertToSystem(start_steady_timestamp), start_steady_timestamp>>
  ELSE IF start_steady_timestamp = 0
    THEN <<start_system_timestamp, ConvertToSteady(start_system_timestamp)>>
  ELSE <<start_system_timestamp, start_steady_timestamp>>

\* What a reference points to: nothing, a context of another tracer, or an
\* OtSpanContext (the one class dynamic_cast recognises).
NullContext == [cls |-> "null", trace_id |-> 0, id |-> 0]
ForeignContexts == {[cls |-> "foreign", trace_id |-> 13, id |-> 14]}
OtContexts == {[cls |-> "ot", trace_id |-> 11, id |-> 12],
               [cls |-> "ot", trace_id |-> 12, id |-> 11]}
Contexts == {NullContext} \cup ForeignContexts \cup OtContexts
ReferenceTypes == {"ChildOfRef", "FollowsFromRef"}
References == [type : ReferenceTypes, context : Contexts]

\* Mutant of findSpanContext: the last recognised context wins.
RECURSIVE findSpanContextLast(_)
findSpanContextLast(references) ==
  IF references = <<>> THEN NullContext
  ELSE IF findSpanContextLast(Tail(references)).cls = "ot"
    THEN findSpanContextLast(Tail(references))
  ELSE IF Head(references).context.cls = "ot" THEN Head(references).context
  ELSE NullContext

\* findSpanContext: the first reference whose context is an OtSpanContext,
\* or NullContext (nullptr) when there is none.
RECURSIVE findSpanContext(_)
findSpanContext(references) ==
  IF references = <<>> THEN NullContext
  ELSE IF Head(references).context.cls = "ot" THEN Head(references).context
  ELSE findSpanContext(Tail(references))

\* zipkin::SpanContext{span}: the identity triple of a record.
SpanContextOf(span) ==
  [trace_id |-> span.trace_id, id |-> span.id, parent_id |-> span.parent_id]

\* The tracer's service identity (Tracer::serviceName(), Tracer::address()).
Tracer == [serviceName |-> "svc", address |-> "10.0.0.1:9411"]
TracerEndpoint == [service_name |-> Tracer.serviceName, address |-> Tracer.address]

\* The text of a tag value in a binary annotation.
ValueToString(value) ==
  CASE value = "bool:true" -> "true"
    [] value = "int:7" -> "7"
    [] value = "str:7" -> "7"
    [] OTHER -> ""

\* toBinaryAnnotation(key, value).
toBinaryAnnotation(key, value) ==
  [key |-> key, value |-> ValueToString(value), endpoint |-> TracerEndpoint]

\* ------------------------------------------------------------ initial state

NoTags == [k \in Keys |-> NoValue]

\* A zipkin::Span{} as `new zipkin::Span{}` leaves it.
EmptySpan ==
  [name |-> "", id |-> 0, trace_id |-> 0, parent_id |-> None, timestamp |-> 0,
   duration |-> None, annotations |-> <<>>]

\* A thread between two calls: no arguments, no locals.
IdleFrame ==
  [key |-> "", value |-> NoValue, name |-> "", finish_steady_timestamp |-> 0,
   remaining |-> {}, in_dtor |-> FALSE]

NoOptions ==
  [references |-> <<>>, tags |-> NoTags, start_system_timestamp |-> 0,
   start_steady_timestamp |-> 0]

InitHist ==
  [options |-> NoOptions,       \* the options start_span was called with
   id_draws |-> <<>>,           \* what RandomUtil::generateId() returned, in order
   start_clocks |-> <<0, 0>>,   \* <<system_now, steady_now>> at construction
   context0 |-> None,           \* the ids of the record as the constructor left it
   passed |-> 0,                \* finish invocations whose exchange read false
   winner |-> NoThread,         \* the thread of the invocation that passed
   implicit |-> FALSE,          \* that invocation was made by ~OtSpan
   finish_hint |-> 0,           \* its finish_steady_timestamp option
   finish_clock |-> None,       \* SteadyClock::now() as it read it, if it did
   duration_writes |-> 0,       \* calls of span_->setDuration
   last_put |-> NoTags,         \* per key, the value argument of the last
                                \* seeding or SetTag that completed
   flushed |-> None,            \* last_put when the flush of finish locked
   written |-> [k \in Keys |-> {}],  \* per key, the value arguments of the
                                \* SetTag calls that completed
   finish_failed |-> FALSE,     \* a std::bad_alloc was swallowed inside finish
   carried |-> [f \in Formats |-> {}],  \* per carrier, what the other side of
                                \* the boundary put into it
   torn_down |-> FALSE]         \* ~OtSpan has run to its end

Init ==
  /\ phase = "none"
  /\ steady_now = Clock.steady0
  /\ system_now = Clock.system0
  /\ ticks = 0
  /\ span_ = EmptySpan
  /\ tags_ = NoTags
  /\ is_finished_ = FALSE
  /\ mutex_ = NoThread
  /\ span_context_ = SpanContextOf(EmptySpan)
  /\ start_steady_timestamp_ = 0
  /\ reporter = <<>>
  /\ pc = [t \in Threads |-> "idle"]
  /\ frame = [t \in Threads |-> IdleFrame]
  /\ carrier = [f \in Formats |-> {}]
  /\ returned = None
  /\ hist = InitHist

\* ------------------------------------------------------------------ clocks

\* Time passes: both clocks advance.
Tick ==
  /\ ticks < MaxTicks
  /\ ticks' = ticks + 1
  /\ steady_now' = steady_now + Clock.tick
  /\ system_now' = system_now + Clock.tick
  /\ UNCHANGED <<wire, phase, span_, tags_, is_finished_, mutex_,
                 span_context_, start_steady_timestamp_, reporter, pc, frame,
                 hist>>

\* ------------------------------------------------------------- start_span

\* Mutant of SetIds: a root span reuses its span id as its trace id.
SetIdsReuseSpanId(span, references, first_draw, second_draw) ==
  LET parent_span_context == findSpanContext(references)
      with_id == [span EXCEPT !.id = first_draw]
  IN  IF parent_span_context.cls = "ot"
        THEN <<[with_id EXCEPT !.trace_id = parent_span_context.trace_id,
                               !.parent_id = Some(parent_span_context.id)],
               <<first_draw>>>>
        ELSE <<[with_id EXCEPT !.trace_id = first_draw],
               <<first_draw, second_draw>>>>

\* Mutant of SetIds: a trace id is generated before the parent is looked for
\* and overwritten when one is found.
SetIdsAlwaysGenerates(span, references, first_draw, second_draw) ==
  LET parent_span_context == findSpanContext(references)
      with_id == [span EXCEPT !.id = first_draw, !.trace_id = second_draw]
  IN  IF parent_span_context.cls = "ot"
        THEN <<[with_id EXCEPT !.trace_id = parent_span_context.trace_id,
                               !.parent_id = Some(parent_span_context.id)],
               <<first_draw, second_draw>>>>
        ELSE <<with_id, <<first_draw, second_draw>>>>

\* The identifiers of a new span: <<record with ids set, draws>>.  The span
\* id is drawn first; the trace id is drawn only when no parent is found.
SetIds(span, references, first_draw, second_draw) ==
  LET parent_span_context == findSpanContext(references)
      with_id == [span EXCEPT !.id = first_draw]
  IN  IF parent_span_context.cls = "ot"
        THEN <<[with_id EXCEPT !.trace_id = parent_span_context.trace_id,
                               !.parent_id = Some(parent_span_context.id)],
               <<first_draw>>>>
        ELSE <<[with_id EXCEPT !.trace_id = second_draw],
               <<first_draw, second_draw>>>>

\* Mutant of ContextAtConstruction: the context is taken before the ids are
\* set.
ContextBeforeIds(core, built) == SpanContextOf(core)

\* "Set context": span_context_ = OtSpanContext{zipkin::SpanContext{*span_}},
\* taken from the record once its ids are set (`built`), not from the record
\* StartSpanWithOptions passed in (`core`).
ContextAtConstruction(core, built) == SpanContextOf(built)

\* The tag map seeded from options.tags.
SeedTags(tags) == [k \in Keys |-> tags[k]]

\* Mutant of NewCoreSpan: the "lc" annotation is left out.
NewCoreSpanNoServiceName(operation_name) ==
  [EmptySpan EXCEPT !.name = operation_name]

\* The record StartSpanWithOptions builds before OtSpan is constructed: the
\* name and the "lc" annotation of the local service.
NewCoreSpan(operation_name) ==
  [EmptySpan EXCEPT
     !.name = operation_name,
     !.annotations = <<[key |-> "lc", value |-> Tracer.serviceName,
                        endpoint |-> TracerEndpoint]>>]

\* OtTracer::StartSpanWithOptions and the OtSpan constructor it runs.
\* `draws` is what RandomUtil::generateId() returns when called once and twice.
StartSpanWithOptions(operation_name, options, draws) ==
  /\ phase = "none"
  /\ LET core == NewCoreSpan(operation_name)
         ids == SetIds(core, options.references, draws[1], draws[2])
         stamps == computeStartTimestamps(options.start_system_timestamp,
                                          options.start_steady_timestamp)
         built == [ids[1] EXCEPT
                     !.timestamp = DurationCast(stamps[1], NanosPerMicro)]
     IN  /\ span_' = built
         /\ start_steady_timestamp_' = stamps[2]
         /\ tags_' = SeedTags(options.tags)
         /\ span_context_' = ContextAtConstruction(core, built)
         /\ hist' = [hist EXCEPT !.options = options,
                                 !.last_put = options.tags,
                                 !.id_draws = ids[2],
                                 !.start_clocks = <<system_now, steady_now>>,
                                 !.context0 = Some(SpanContextOf(built))]
  /\ phase' = "live"
  /\ UNCHANGED <<wire, steady_now, system_now, ticks, is_finished_, mutex_,
                 reporter, pc, frame>>

\* ------------------------------------------------------------ calls on a span

\* ~OtSpan is running on some thread.
Destructing == \E t \in Threads : frame[t].in_dtor \/ pc[t] = "dtor_members"

\* A thread may call a method of the span: the object is alive, the thread is
\* between calls and the destructor has not begun.
CanCall(t) == phase = "live" /\ pc[t] = "idle" /\ ~Destructing

\* Where a FinishWithOptions invocation returns to.
FinishReturn(t) == IF frame[t].in_dtor THEN "dtor_members" ELSE "idle"

\* span->FinishWithOptions({finish_steady_timestamp}) is called.
CallFinish(t, finish_steady_timestamp) ==
  /\ CanCall(t)
  /\ pc' = [pc EXCEPT ![t] = "fin_exchange"]
  /\ frame' = [frame EXCEPT
                 ![t] = [IdleFrame EXCEPT
                           !.finish_steady_timestamp = finish_steady_timestamp]]
  /\ UNCHANGED <<wire, phase, steady_now, system_now, ticks, span_, tags_,
                 is_finished_, mutex_, span_context_, start_steady_timestamp_,
                 reporter, hist>>

\* Mutant of FinishExchange: the flag is read and never set
\* (is_finished_.load() in place of exchange(true)).
FinishExchangeLoadOnly(t) ==
  /\ pc[t] = "fin_exchange"
  /\ is_finished_' = is_finished_
  /\ IF is_finished_
       THEN /\ pc' = [pc EXCEPT ![t] = FinishReturn(t)]
            /\ frame' = [frame EXCEPT ![t] = IdleFrame]
            /\ hist' = hist
       ELSE /\ pc' = [pc EXCEPT ![t] = "fin_duration"]
            /\ frame' = frame
            /\ hist' = [hist EXCEPT
                          !.passed = @ + 1,
                          !.winner = t,
                          !.implicit = frame[t].in_dtor,
                          !.finish_hint = frame[t].finish_steady_timestamp]
  /\ UNCHANGED <<wire, phase, steady_now, system_now, ticks, span_, tags_,
                 mutex_, span_context_, start_steady_timestamp_, reporter>>

\* Mutant of FinishExchange: the flag is tested and set under the mutex
\* (std::lock_guard first, then a plain test and assignment).
FinishExchangeUnderLock(t) ==
  /\ pc[t] = "fin_exchange"
  /\ mutex_ = NoThread
  /\ is_finished_' = TRUE
  /\ IF is_finished_
       THEN /\ pc' = [pc EXCEPT ![t] = FinishReturn(t)]
            /\ frame' = [frame EXCEPT ![t] = IdleFrame]
            /\ hist' = hist
       ELSE /\ pc' = [pc EXCEPT ![t] = "fin_duration"]
            /\ frame' = frame
            /\ hist' = [hist EXCEPT
                          !.passed = @ + 1,
                          !.winner = t,
                          !.implicit = frame[t].in_dtor,
                          !.finish_hint = frame[t].finish_steady_timestamp]
  /\ UNCHANGED <<wire, phase, steady_now, system_now, ticks, span_, tags_,
                 mutex_, span_context_, start_steady_timestamp_, reporter>>

\* if (is_finished_.exchange(true)) return;
FinishExchange(t) ==
  /\ pc[t] = "fin_exchange"
  /\ is_finished_' = TRUE
  /\ IF is_finished_
       THEN /\ pc' = [pc EXCEPT ![t] = FinishReturn(t)]
            /\ frame' = [frame EXCEPT ![t] = IdleFrame]
            /\ hist' = hist
       ELSE /\ pc' = [pc EXCEPT ![t] = "fin_duration"]
            /\ frame' = frame
            /\ hist' = [hist EXCEPT
                          !.passed = @ + 1,
                          !.winner = t,
                          !.implicit = frame[t].in_dtor,
                          !.finish_hint = frame[t].finish_steady_timestamp]
  /\ UNCHANGED <<wire, phase, steady_now, system_now, ticks, span_, tags_,
                 mutex_, span_context_, start_steady_timestamp_, reporter>>

\* Mutant of FinishDuration: the operands of the subtraction are swapped.
FinishDurationSwapped(finish_timestamp, start_steady_timestamp) ==
  DurationCast(start_steady_timestamp - finish_timestamp, NanosPerMicro)

\* Mutant of FinishDuration: a finish time before the start gives zero.
FinishDurationClamped(finish_timestamp, start_steady_timestamp) ==
  IF finish_timestamp < start_steady_timestamp THEN 0
  ELSE DurationCast(finish_timestamp - start_steady_timestamp, NanosPerMicro)

\* The duration FinishWithOptions stores, in microseconds.
FinishDuration(finish_timestamp, start_steady_timestamp) ==
  DurationCast(finish_timestamp - start_steady_timestamp, NanosPerMicro)

\* "Set timing information": the finish time is the option or, when that is
\* the default time point, SteadyClock::now(); span_->setDuration(...).
FinishSetDuration(t) ==
  /\ pc[t] = "fin_duration"
  /\ LET given == frame[t].finish_steady_timestamp
         finish_timestamp == IF given = 0 THEN steady_now ELSE given
     IN  /\ span_' = [span_ EXCEPT
                        !.duration = Some(FinishDuration(finish_timestamp,
                                                         start_steady_timestamp_))]
         /\ hist' = [hist EXCEPT
                       !.duration_writes = @ + 1,
                       !.finish_clock = IF given = 0 THEN Some(steady_now) ELSE @]
  /\ pc' = [pc EXCEPT ![t] = "fin_lock"]
  /\ UNCHANGED <<wire, phase, steady_now, system_now, ticks, tags_,
                 is_finished_, mutex_, span_context_, start_steady_timestamp_,
                 reporter, frame>>

\* Mutant of FinishLock: the loop over tags_ begins without the lock_guard.
FinishLockNotTaken(t) ==
  /\ pc[t] = "fin_lock"
  /\ pc' = [pc EXCEPT ![t] = "fin_tags"]
  /\ frame' = [frame EXCEPT
                 ![t].remaining = {k \in Keys : tags_[k] # NoValue}]
  /\ hist' = [hist EXCEPT !.flushed = Some(hist.last_put)]
  /\ UNCHANGED <<wire, phase, steady_now, system_now, ticks, span_, tags_,
                 is_finished_, mutex_, span_context_, start_steady_timestamp_,
                 reporter>>

\* std::lock_guard<std::mutex> lock{mutex_}; the loop over tags_ begins.
FinishLock(t) ==
  /\ pc[t] = "fin_lock"
  /\ mutex_ = NoThread
  /\ mutex_' = t
  /\ pc' = [pc EXCEPT ![t] = "fin_tags"]
  /\ frame' = [frame EXCEPT
                 ![t].remaining = {k \in Keys : tags_[k] # NoValue}]
  /\ hist' = [hist EXCEPT !.flushed = Some(hist.last_put)]
  /\ UNCHANGED <<wire, phase, steady_now, system_now, ticks, span_, tags_,
                 is_finished_, span_context_, start_steady_timestamp_,
                 reporter>>

\* One turn of the loop: span_->addBinaryAnnotation(toBinaryAnnotation(...)).
\* An unordered_map is walked in no particular order.
FinishAddTag(t) ==
  /\ pc[t] = "fin_tags"
  /\ \E k \in frame[t].remaining :
       /\ span_' = [span_ EXCEPT
                      !.annotations = Append(@, toBinaryAnnotation(k, tags_[k]))]
       /\ frame' = [frame EXCEPT ![t].remaining = @ \ {k}]
  /\ UNCHANGED <<wire, phase, steady_now, system_now, ticks, tags_,
                 is_finished_, mutex_, span_context_, start_steady_timestamp_,
                 reporter, pc, hist>>

\* A turn of the loop throws std::bad_alloc: unwinding destroys the
\* lock_guard, which unlocks, and control reaches the handler of the
\* function-try-block; span_->finish() is never reached.
FinishBadAlloc(t) ==
  /\ pc[t] = "fin_tags"
  /\ frame[t].remaining # {}
  /\ mutex_' = NoThread
  /\ pc' = [pc EXCEPT ![t] = "fin_catch"]
  /\ frame' = [frame EXCEPT ![t] = [IdleFrame EXCEPT !.in_dtor = frame[t].in_dtor]]
  /\ hist' = [hist EXCEPT !.finish_failed = TRUE]
  /\ UNCHANGED <<wire, phase, steady_now, system_now, ticks, span_, tags_,
                 is_finished_, span_context_, start_steady_timestamp_,
                 reporter>>

\* catch (const std::bad_alloc&) { }: the handler does nothing and the call
\* returns.
FinishCatch(t) ==
  /\ pc[t] = "fin_catch"
  /\ pc' = [pc EXCEPT ![t] = FinishReturn(t)]
  /\ frame' = [frame EXCEPT ![t] = IdleFrame]
  /\ UNCHANGED <<wire, phase, steady_now, system_now, ticks, span_, tags_,
                 is_finished_, mutex_, span_context_, start_steady_timestamp_,
                 reporter, hist>>

\* Mutant of FinishReport: the mutex is locked by hand and the return after
\* span_->finish() comes before the unlock.
FinishReportKeepsLock(t) ==
  /\ pc[t] = "fin_tags"
  /\ frame[t].remaining = {}
  /\ reporter' = Append(reporter, span_)
  /\ pc' = [pc EXCEPT ![t] = FinishReturn(t)]
  /\ frame' = [frame EXCEPT ![t] = IdleFrame]
  /\ UNCHANGED <<wire, phase, steady_now, system_now, ticks, span_, tags_,
                 is_finished_, mutex_, span_context_, start_steady_timestamp_,
                 hist>>

\* span_->finish(): the record goes to the tracer's reporter; then the
\* lock_guard unlocks and the call returns.
FinishReport(t) ==
  /\ pc[t] = "fin_tags"
  /\ frame[t].remaining = {}
  /\ reporter' = Append(reporter, span_)
  /\ mutex_' = NoThread
  /\ pc' = [pc EXCEPT ![t] = FinishReturn(t)]
  /\ frame' = [frame EXCEPT ![t] = IdleFrame]
  /\ UNCHANGED <<wire, phase, steady_now, system_now, ticks, span_, tags_,
                 is_finished_, span_context_, start_steady_timestamp_, hist>>

\* span->SetTag(key, value) is called.
CallSetTag(t, key, value) ==
  /\ CanCall(t)
  /\ pc' = [pc EXCEPT ![t] = "tag_lock"]
  /\ frame' = [frame EXCEPT ![t] = [IdleFrame EXCEPT !.key = key, !.value = value]]
  /\ UNCHANGED <<wire, phase, steady_now, system_now, ticks, span_, tags_,
                 is_finished_, mutex_, span_context_, start_steady_timestamp_,
                 reporter, hist>>

\* std::lock_guard<std::mutex> lock_guard{mutex_};
SetTagLock(t) ==
  /\ pc[t] = "tag_lock"
  /\ mutex_ = NoThread
  /\ mutex_' = t
  /\ pc' = [pc EXCEPT ![t] = "tag_write"]
  /\ UNCHANGED <<wire, phase, steady_now, system_now, ticks, span_, tags_,
                 is_finished_, span_context_, start_steady_timestamp_,
                 reporter, frame, hist>>

\* Mutant of TagsAssign: a key that is present keeps its value
\* (tags_.emplace(key, value)).
TagsAssignKeepFirst(tags, key, value) ==
  IF tags[key] = NoValue THEN [tags EXCEPT ![key] = value] ELSE tags

\* Mutant of TagsAssign: the map is replaced by the one entry
\* (tags_ = {{key, value}}).
TagsAssignClobber(tags, key, value) ==
  [k \in Keys |-> IF k = key THEN value ELSE NoValue]

\* The map after tags_[key] = value.
TagsAssign(tags, key, value) == [tags EXCEPT ![key] = value]

\* tags_[key] = value; the lock_guard unlocks and the call returns.
SetTagWrite(t) ==
  /\ pc[t] = "tag_write"
  /\ tags_' = TagsAssign(tags_, frame[t].key, frame[t].value)
  /\ hist' = [hist EXCEPT !.written[frame[t].key] = @ \cup {frame[t].value},
                          !.last_put[frame[t].key] = frame[t].value]
  /\ mutex_' = NoThread
  /\ pc' = [pc EXCEPT ![t] = "idle"]
  /\ frame' = [frame EXCEPT ![t] = IdleFrame]
  /\ UNCHANGED <<wire, phase, steady_now, system_now, ticks, span_,
                 is_finished_, span_context_, start_steady_timestamp_,
                 reporter>>

\* Mutant of SetTagBadAlloc: the mutex is locked and unlocked by hand
\* (mutex_.lock(); tags_[key] = value; mutex_.unlock();), so the exception
\* leaves it locked.
SetTagBadAllocKeepsLock(t) ==
  /\ pc[t] = "tag_write"
  /\ pc' = [pc EXCEPT ![t] = "tag_catch"]
  /\ frame' = [frame EXCEPT ![t] = IdleFrame]
  /\ UNCHANGED <<wire, phase, steady_now, system_now, ticks, span_, tags_,
                 is_finished_, mutex_, span_context_, start_steady_timestamp_,
                 reporter, hist>>

\* tags_[key] = value throws std::bad_alloc before the map changes: unwinding
\* destroys the lock_guard, which unlocks, and control reaches the handler of
\* the function-try-block.
SetTagBadAlloc(t) ==
  /\ pc[t] = "tag_write"
  /\ mutex_' = NoThread
  /\ pc' = [pc EXCEPT ![t] = "tag_catch"]
  /\ frame' = [frame EXCEPT ![t] = IdleFrame]
  /\ UNCHANGED <<wire, phase, steady_now, system_now, ticks, span_, tags_,
                 is_finished_, span_context_, start_steady_timestamp_,
                 reporter, hist>>

\* catch (const std::bad_alloc&) { }: the handler does nothing and the call
\* returns.
SetTagCatch(t) ==
  /\ pc[t] = "tag_catch"
  /\ pc' = [pc EXCEPT ![t] = "idle"]
  /\ UNCHANGED <<wire, phase, steady_now, system_now, ticks, span_, tags_,
                 is_finished_, mutex_, span_context_, start_steady_timestamp_,
                 reporter, frame, hist>>

\* span->SetOperationName(name) is called.
CallSetOperationName(t, name) ==
  /\ CanCall(t)
  /\ pc' = [pc EXCEPT ![t] = "name_lock"]
  /\ frame' = [frame EXCEPT ![t] = [IdleFrame EXCEPT !.name = name]]
  /\ UNCHANGED <<wire, phase, steady_now, system_now, ticks, span_, tags_,
                 is_finished_, mutex_, span_context_, start_steady_timestamp_,
                 reporter, hist>>

\* std::lock_guard<std::mutex> lock_guard{mutex_};
SetOperationNameLock(t) ==
  /\ pc[t] = "name_lock"
  /\ mutex_ = NoThread
  /\ mutex_' = t
  /\ pc' = [pc EXCEPT ![t] = "name_write"]
  /\ UNCHANGED <<wire, phase, steady_now, system_now, ticks, span_, tags_,
                 is_finished_, span_context_, start_steady_timestamp_,
                 reporter, frame, hist>>

\* Mutant of SetOperationNameWrite: the reporter was handed a pointer to the
\* record, so the name changes in what it received as well.
SetOperationNameWriteShared(t) ==
  /\ pc[t] = "name_write"
  /\ span_' = [span_ EXCEPT !.name = frame[t].name]
  /\ reporter' = [n \in 1..Len(reporter) |->
                    [reporter[n] EXCEPT !.name = frame[t].name]]
  /\ mutex_' = NoThread
  /\ pc' = [pc EXCEPT ![t] = "idle"]
  /\ frame' = [frame EXCEPT ![t] = IdleFrame]
  /\ UNCHANGED <<wire, phase, steady_now, system_now, ticks, tags_,
                 is_finished_, span_context_, start_steady_timestamp_, hist>>

\* span_->setName(name); the lock_guard unlocks and the call returns.
SetOperationNameWrite(t) ==
  /\ pc[t] = "name_write"
  /\ span_' = [span_ EXCEPT !.name = frame[t].name]
  /\ mutex_' = NoThread
  /\ pc' = [pc EXCEPT ![t] = "idle"]
  /\ frame' = [frame EXCEPT ![t] = IdleFrame]
  /\ UNCHANGED <<wire, phase, steady_now, system_now, ticks, tags_,
                 is_finished_, span_context_, start_steady_timestamp_,
                 reporter, hist>>

\* span_->setName(name) throws std::bad_alloc: the name stays, unwinding
\* destroys the lock_guard, which unlocks, and control reaches the handler of
\* the function-try-block.
SetOperationNameBadAlloc(t) ==
  /\ pc[t] = "name_write"
  /\ mutex_' = NoThread
  /\ pc' = [pc EXCEPT ![t] = "name_catch"]
  /\ frame' = [frame EXCEPT ![t] = IdleFrame]
  /\ UNCHANGED <<wire, phase, steady_now, system_now, ticks, span_, tags_,
                 is_finished_, span_context_, start_steady_timestamp_,
                 reporter, hist>>

\* catch (const std::bad_alloc&) { }: the handler does nothing and the call
\* returns.
SetOperationNameCatch(t) ==
  /\ pc[t] = "name_catch"
  /\ pc' = [pc EXCEPT ![t] = "idle"]
  /\ UNCHANGED <<wire, phase, steady_now, system_now, ticks, span_, tags_,
                 is_finished_, mutex_, span_context_, start_steady_timestamp_,
                 reporter, frame, hist>>

\* span->context(): a reference to span_context_.
context == span_context_

\* ------------------------------------------------------------------ teardown

\* Mutant of DtorBegin: a destructor that never finishes the span.
DtorBeginNoFinish(t) ==
  /\ phase = "live"
  /\ ~Destructing
  /\ \A u \in Threads : pc[u] = "idle"
  /\ pc' = [pc EXCEPT ![t] = "dtor_members"]
  /\ UNCHANGED <<wire, phase, steady_now, system_now, ticks, span_, tags_,
                 is_finished_, mutex_, span_context_, start_steady_timestamp_,
                 reporter, frame, hist>>

\* The owner drops the handle once every call on the span has returned;
\* ~OtSpan: if (!is_finished_) this->Finish();
DtorBegin(t) ==
  /\ phase = "live"
  /\ ~Destructing
  /\ \A u \in Threads : pc[u] = "idle"
  /\ IF is_finished_
       THEN /\ pc' = [pc EXCEPT ![t] = "dtor_members"]
            /\ frame' = frame
       ELSE /\ pc' = [pc EXCEPT ![t] = "fin_exchange"]
            /\ frame' = [frame EXCEPT ![t] = [IdleFrame EXCEPT !.in_dtor = TRUE]]
  /\ UNCHANGED <<wire, phase, steady_now, system_now, ticks, span_, tags_,
                 is_finished_, mutex_, span_context_, start_steady_timestamp_,
                 reporter, hist>>

\* The destructor's body is done: the members are destroyed.
DtorEnd(t) ==
  /\ pc[t] = "dtor_members"
  /\ phase' = "destroyed"
  /\ pc' = [pc EXCEPT ![t] = "idle"]
  /\ hist' = [hist EXCEPT !.torn_down = TRUE]
  /\ UNCHANGED <<wire, steady_now, system_now, ticks, span_, tags_,
                 is_finished_, mutex_, span_context_, start_steady_timestamp_,
                 reporter, frame>>

\* The owner drops the handle while another thread is still inside a call on
\* the span; ~OtSpan: if (!is_finished_) this->Finish();
DtorBeginRacing(t) ==
  /\ phase = "live"
  /\ ~Destructing
  /\ pc[t] = "idle"
  /\ \E u \in Threads : pc[u] # "idle"
  /\ IF is_finished_
       THEN /\ pc' = [pc EXCEPT ![t] = "dtor_members"]
            /\ frame' = frame
       ELSE /\ pc' = [pc EXCEPT ![t] = "fin_exchange"]
            /\ frame' = [frame EXCEPT ![t] = [IdleFrame EXCEPT !.in_dtor = TRUE]]
  /\ UNCHANGED <<wire, phase, steady_now, system_now, ticks, span_, tags_,
                 is_finished_, mutex_, span_context_, start_steady_timestamp_,
                 reporter, hist>>

\* A thread still inside a call touches a member of the destroyed object.
\* The behaviour is undefined: the step may go on as if the members were
\* still there (the thread's ordinary actions), or the thread may fault
\* here and never return.
UseAfterFree(t) ==
  /\ phase = "destroyed"
  /\ pc[t] \notin {"idle", "crashed"}
  /\ pc' = [pc EXCEPT ![t] = "crashed"]
  /\ UNCHANGED <<wire, phase, steady_now, system_now, ticks, span_, tags_,
                 is_finished_, mutex_, span_context_, start_steady_timestamp_,
                 reporter, frame, hist>>

\* ------------------------------------------------------ carrier propagation

\* The tracer on the other side of a boundary puts an entry into a carrier.
CarrierPut(format, entry) ==
  /\ entry \notin carrier[format]
  /\ carrier' = [carrier EXCEPT ![format] = @ \cup {entry}]
  /\ hist' = [hist EXCEPT !.carried[format] = @ \cup {entry}]
  /\ UNCHANGED <<phase, steady_now, system_now, ticks, span_, tags_,
                 is_finished_, mutex_, span_context_, start_steady_timestamp_,
                 reporter, pc, frame, returned>>

\* tracer->Inject(sc, writer), for each of the three writers: return {}.
Inject(sc, format) ==
  /\ returned' = Some([op |-> "Inject", format |-> format, ok |-> TRUE,
                       value |-> None])
  /\ UNCHANGED <<phase, steady_now, system_now, ticks, span_, tags_,
                 is_finished_, mutex_, span_context_, start_steady_timestamp_,
                 reporter, pc, frame, carrier, hist>>

\* Mutant of Extract: the carrier is read, and a context is returned when it
\* holds both identifiers.
ExtractParsed(format) ==
  /\ returned' =
       Some([op |-> "Extract", format |-> format, ok |-> TRUE,
             value |-> Some(IF carrier[format] = Entries
                              THEN [cls |-> "ot", trace_id |-> 11, id |-> 12]
                              ELSE NullContext)])
  /\ UNCHANGED <<phase, steady_now, system_now, ticks, span_, tags_,
                 is_finished_, mutex_, span_context_, start_steady_timestamp_,
                 reporter, pc, frame, carrier, hist>>

\* tracer->Extract(reader), for each of the three readers:
\* return std::unique_ptr<ot::SpanContext>{}.
Extract(format) ==
  /\ returned' = Some([op |-> "Extract", format |-> format, ok |-> TRUE,
                       value |-> Some(NullContext)])
  /\ UNCHANGED <<phase, steady_now, system_now, ticks, span_, tags_,
                 is_finished_, mutex_, span_context_, start_steady_timestamp_,
                 reporter, pc, frame, carrier, hist>>

\* The options a caller builds from what Extract returned:
\* {ChildOf(ctx)} or {FollowsFrom(ctx)}, which may or may not record a
\* reference to a null context.
ExtractedOptions ==
  IF returned = None \/ returned[1].op # "Extract" THEN {}
  ELSE {NoOptions} \cup
       {[NoOptions EXCEPT !.references =
           <<[type |-> ty, context |-> returned[1].value[1]]>>] :
          ty \in ReferenceTypes}

\* ------------------------------------------------------------ specifications

\* The start options of the life-cycle specification: a root span with no
\* tags and no hints, and a child span with a seeded tag and a steady hint.
RootOptions == NoOptions
ChildOptions ==
  [references |-> <<[type |-> "FollowsFromRef", context |-> NullContext],
                    [type |-> "ChildOfRef",
                     context |-> [cls |-> "ot", trace_id |-> 11, id |-> 12]]>>,
   tags |-> [NoTags EXCEPT !["k1"] = "bool:true"],
   start_system_timestamp |-> 0,
   start_steady_timestamp |-> 7900]
LifeOptions == {RootOptions, ChildOptions}
\* What the identifier generator returns in the life-cycle specification.
LifeDraws == {<<1, 2>>}
\* The SetTag calls of the life-cycle specification: never "bool:true", and
\* never "str:7" for "k2".
TagCalls ==
  {c \in Keys \X Vals : c[2] # "bool:true" /\ c # <<"k2", "str:7">>}

SpanStep ==
  \E t \in Threads :
    \/ \E h \in FinishHints : CallFinish(t, h)
    \/ FinishExchange(t)
    \/ FinishSetDuration(t)
    \/ FinishLock(t)
    \/ FinishAddTag(t)
    \/ FinishBadAlloc(t)
    \/ FinishCatch(t)
    \/ FinishReport(t)
    \/ \E c \in TagCalls : CallSetTag(t, c[1], c[2])
    \/ SetTagLock(t)
    \/ SetTagWrite(t)
    \/ SetTagBadAlloc(t)
    \/ SetTagCatch(t)
    \/ CallSetOperationName(t, "renamed")
    \/ SetOperationNameLock(t)
    \/ SetOperationNameWrite(t)
    \/ SetOperationNameBadAlloc(t)
    \/ SetOperationNameCatch(t)
    \/ DtorBegin(t)
    \/ DtorEnd(t)

Next ==
  \/ Tick
  \/ \E o \in LifeOptions, d \in LifeDraws : StartSpanWithOptions("op", o, d)
  \/ SpanStep

Spec == Init /\ [][Next]_vars

\* The construction specification: start_span over every reference list of
\* up to MaxRefs references, every pair of start hints and every pair of
\* generated identifiers, at any reading of the clocks.
RefLists == UNION {[1..n -> References] : n \in 0..MaxRefs}
StartOptions ==
  [references : RefLists,
   tags : {NoTags, [NoTags EXCEPT !["k2"] = "str:7"]},
   start_system_timestamp : SystemHints,
   start_steady_timestamp : SteadyHints]

NextStart ==
  \/ Tick
  \/ /\ phase = "none"
     /\ \E o \in StartOptions, d \in Ids \X Ids : StartSpanWithOptions("op", o, d)

SpecStart == Init /\ [][NextStart]_vars

\* The racing-teardown specification: the life cycle of a span whose owner
\* may drop the handle while calls on the span are still running. Time does
\* not pass.
NextRace ==
  \/ \E o \in LifeOptions, d \in LifeDraws : StartSpanWithOptions("op", o, d)
  \/ SpanStep
  \/ \E t \in Threads : DtorBeginRacing(t) \/ UseAfterFree(t)

SpecRace == Init /\ [][NextRace]_vars

\* The steps by which thread t goes on with the call it is inside, the
\* destructor included.
Continue(t) ==
  \/ FinishExchange(t)
  \/ FinishSetDuration(t)
  \/ FinishLock(t)
  \/ FinishAddTag(t)
  \/ FinishBadAlloc(t)
  \/ FinishCatch(t)
  \/ FinishReport(t)
  \/ SetTagLock(t)
  \/ SetTagWrite(t)
  \/ SetTagBadAlloc(t)
  \/ SetTagCatch(t)
  \/ SetOperationNameLock(t)
  \/ SetOperationNameWrite(t)
  \/ SetOperationNameBadAlloc(t)
  \/ SetOperationNameCatch(t)
  \/ DtorEnd(t)

\* The fair specification: a span seeded with one tag, on which two threads
\* call Finish, SetTag and SetOperationName as often as they like and which
\* its owner may drop. A thread inside a call is scheduled fairly: whenever
\* it can go on again and again, it does (a thread waiting for the mutex is
\* not passed over for ever). Nothing obliges a thread to make a call.
NextFair ==
  \/ StartSpanWithOptions("op", ChildOptions, <<1, 2>>)
  \/ \E t \in Threads :
       \/ CallFinish(t, 0)
       \/ CallSetTag(t, "k2", "int:7")
       \/ CallSetOperationName(t, "renamed")
       \/ DtorBegin(t)
       \/ Continue(t)

SpecFair ==
  /\ Init
  /\ [][NextFair]_vars
  /\ \A t \in Threads : SF_vars(Continue(t))

\* The propagation specification: carriers filled by the other side, Inject
\* and Extract on every format, and start_span from what Extract returned.
NextCarrier ==
  \/ \E f \in Formats, e \in Entries : CarrierPut(f, e)
  \/ \E sc \in OtContexts \cup ForeignContexts, f \in Formats : Inject(sc, f)
  \/ \E f \in Formats : Extract(f)
  \/ /\ phase = "none"
     /\ \E o \in ExtractedOptions, d \in Ids \X Ids :
          StartSpanWithOptions("op", o, d)

SpecCarrier == Init /\ [][NextCarrier]_vars

\* ------------------------------------------------------------------ claims

\* C1: however many finish invocations a span receives (explicit, with or
\* without a hint, concurrent or not, and the destructor's), at most one
\* passes the exchange on is_finished_, the duration is written at most once
\* and at most one record reaches the reporter; only the invocation that
\* passed is ever past the exchange, and an invocation that reads true
\* returns in that step leaving the record, the tag map and the reporter's
\* input as they were.
C1_FinishOnce ==
  /\ [](/\ hist.passed <= 1
        /\ hist.duration_writes <= 1
        /\ Len(reporter) <= 1
        /\ \A t \in Threads :
             pc[t] \in {"fin_duration", "fin_lock", "fin_tags", "fin_catch"}
               => t = hist.winner /\ hist.passed = 1)
  /\ [][\A t \in Threads :
          (pc[t] = "fin_exchange" /\ is_finished_ /\ pc'[t] # pc[t])
            => /\ pc'[t] \in {"idle", "dtor_members"}
               /\ span_' = span_
               /\ tags_' = tags_
               /\ reporter' = reporter
               /\ hist'.passed = hist.passed]_vars

\* C1 witness: two concurrent invocations, both with a hint: the one that
\* passed is flushing the tags under the mutex, the other is at the exchange
\* and will read the flag as set.
C1_Witness ==
  /\ hist.passed = 1
  /\ hist.winner = 2
  /\ pc[2] = "fin_tags"
  /\ frame[2].finish_steady_timestamp # 0
  /\ pc[1] = "fin_exchange"
  /\ frame[1].finish_steady_timestamp # 0
  /\ is_finished_
  /\ reporter = <<>>

\* C2 as stated: once teardown is complete exactly one record has reached the
\* reporter, in every execution, also when finish swallowed a std::bad_alloc.
C2_Original == hist.torn_down => Len(reporter) = 1

\* C2 as amended: once teardown is complete at most one record has reached
\* the reporter: exactly one when no allocation failure was swallowed inside
\* the finish operation, whether or not finish was called explicitly, and
\* none when one was.
C2_ReportedByTeardown ==
  hist.torn_down => Len(reporter) = (IF hist.finish_failed THEN 0 ELSE 1)

\* C2 witness: the caller never finished the span; the destructor's finish
\* reported it and teardown is complete.
C2_Witness ==
  /\ hist.torn_down
  /\ hist.implicit
  /\ ~hist.finish_failed
  /\ Len(reporter) = 1
  /\ Len(reporter[1].annotations) > 1

\* The positions of the OtSpanContext references in a reference list.
Recognized(references) ==
  {i \in 1..Len(references) : references[i].context.cls = "ot"}

\* C3: when the reference list holds a recognised context, the new span's
\* trace id is the trace id of the first one in list order and its parent id
\* is that context's span id (in the record and in context()), whatever the
\* reference types and whatever comes before or after it in the list.
C3_ParentIsFirstRecognized ==
  LET references == hist.options.references
      found == Recognized(references)
  IN  (phase # "none" /\ found # {}) =>
        LET first == CHOOSE i \in found : \A j \in found : i <= j
            parent == references[first].context
        IN  /\ span_.trace_id = parent.trace_id
            /\ span_.parent_id = Some(parent.id)
            /\ context.trace_id = parent.trace_id
            /\ context.parent_id = Some(parent.id)

\* C3 witness: a follows-from reference to a recognised context stands
\* between a foreign context and a different recognised context.
C3_Witness ==
  LET references == hist.options.references
  IN  /\ phase = "live"
      /\ Len(references) = 3
      /\ references[1].context.cls = "foreign"
      /\ references[2] = [type |-> "FollowsFromRef",
                          context |-> [cls |-> "ot", trace_id |-> 12, id |-> 11]]
      /\ references[3].context = [cls |-> "ot", trace_id |-> 11, id |-> 12]
      /\ span_.trace_id = 12
      /\ span_.parent_id = Some(11)

\* C4: when the reference list is empty or holds no recognised context, the
\* new span is a root: the constructor drew two identifiers, the trace id is
\* the second of them, and the parent id is absent, in the record and in
\* context().
C4_RootWhenNoParent ==
  (phase # "none" /\ Recognized(hist.options.references) = {}) =>
    /\ Len(hist.id_draws) = 2
    /\ span_.trace_id = hist.id_draws[2]
    /\ span_.parent_id = None
    /\ context.trace_id = hist.id_draws[2]
    /\ context.parent_id = None

\* C4 witness: a root span built from a non-empty list of unrecognised
\* references, whose two draws differ.
C4_Witness ==
  /\ phase = "live"
  /\ Len(hist.options.references) = 2
  /\ hist.options.references[1].context.cls = "foreign"
  /\ hist.options.references[2].context.cls = "null"
  /\ hist.id_draws = <<2, 1>>
  /\ span_.trace_id = 1
  /\ context.parent_id = None

\* q is n / d truncated toward zero (d > 0).
TruncatedQuotient(q, n, d) ==
  IF n >= 0 THEN q * d <= n /\ n < (q + 1) * d
            ELSE q * d >= n /\ n > (q - 1) * d

\* C5: the reconciled pair is (now, now) with both hints absent, (the steady
\* hint carried over to the system clock, the steady hint) with only the
\* steady hint, (the system hint, the system hint carried over to the steady
\* clock) with only the system hint, and the two hints as given when both are
\* present; its system half, in microseconds, is the record's timestamp and
\* its steady half is start_steady_timestamp_.
C5_StartTimestamps ==
  LET wall_hint == hist.options.start_system_timestamp
      mono_hint == hist.options.start_steady_timestamp
      now_wall == hist.start_clocks[1]
      now_mono == hist.start_clocks[2]
      wall == IF wall_hint # 0 THEN wall_hint
              ELSE IF mono_hint # 0 THEN now_wall + (mono_hint - now_mono)
              ELSE now_wall
      mono == IF mono_hint # 0 THEN mono_hint
              ELSE IF wall_hint # 0 THEN now_mono + (wall_hint - now_wall)
              ELSE now_mono
  IN  phase # "none" =>
        /\ start_steady_timestamp_ = mono
        /\ TruncatedQuotient(span_.timestamp, wall, NanosPerMicro)

\* C5 witness: only the steady hint was given, after the clocks had
\* advanced; the timestamp is the hint carried over to the system clock.
C5_Witness ==
  /\ phase = "live"
  /\ hist.options.start_system_timestamp = 0
  /\ hist.options.start_steady_timestamp = 4100
  /\ hist.start_clocks = <<22600, 7000>>
  /\ start_steady_timestamp_ = 4100
  /\ span_.timestamp = 19

\* The user-tag annotations of a record: all but the first annotation.
UserAnnotations(record) ==
  {i \in 2..Len(record.annotations) : record.annotations[i].key \in Keys}

\* C6: in the reported record every key the tag map held when finish flushed
\* it (seeded from options.tags or written by SetTag) has exactly one
\* annotation, whose value is the text of the last value given for that key;
\* a key given no value has none.
C6_OneAnnotationPerKey ==
  \A n \in 1..Len(reporter) :
    LET record == reporter[n]
        last == hist.flushed[1]
    IN  \A k \in Keys :
          LET at == {i \in UserAnnotations(record) : record.annotations[i].key = k}
          IN  IF last[k] = NoValue
                THEN at = {}
                ELSE /\ Cardinality(at) = 1
                     /\ \A i \in at :
                          record.annotations[i].value = ValueToString(last[k])

\* C6 witness: the key seeded with a bool was set to an integer and then to a
\* string before the flush; the record annotates it once, with the string.
C6_Witness ==
  /\ Len(reporter) = 1
  /\ hist.options.tags["k1"] = "bool:true"
  /\ hist.written["k1"] = {"int:7", "str:7"}
  /\ hist.flushed = Some([k1 |-> "str:7", k2 |-> "int:7"])
  /\ Len(reporter[1].annotations) = 3

\* C7: under every interleaving of SetTag calls the keys of the tag map are
\* the seeded keys and the keys written, and each key holds a value some
\* call gave for it (or its seed, if none did): the value of the call that
\* was serialized last.
C7_TagMapIsUnion ==
  phase # "none" =>
    \A k \in Keys :
      /\ tags_[k] # NoValue <=>
           (hist.options.tags[k] # NoValue \/ hist.written[k] # {})
      /\ hist.written[k] = {} => tags_[k] = hist.options.tags[k]
      /\ hist.written[k] # {} =>
           tags_[k] \in hist.written[k] /\ tags_[k] = hist.last_put[k]

\* C7 witness: on an unfinished span one thread holds the mutex inside SetTag
\* while the other waits for it, after both values of "k1" and a value of
\* "k2" were written.
C7_Witness ==
  /\ ~is_finished_
  /\ pc[1] = "tag_write"
  /\ pc[2] = "tag_lock"
  /\ frame[1].key = frame[2].key
  /\ frame[1].value # frame[2].value
  /\ hist.written["k1"] = {"int:7", "str:7"}
  /\ hist.written["k2"] = {"int:7"}
  /\ tags_["k1"] = "int:7"

\* C8: the duration is unset until a finish invocation has passed the
\* exchange; it is written once, by that invocation alone, and it is the
\* whole microseconds of finish_monotonic - start_monotonic, where
\* finish_monotonic is the invocation's hint when it gave one and the steady
\* clock as the invocation read it otherwise, and start_monotonic is the
\* reconciled steady start time, which no call changes after construction.
C8_DurationOnce ==
  /\ [](/\ ~is_finished_ => span_.duration = None
        /\ hist.duration_writes <= 1
        /\ hist.duration_writes = 0 <=> span_.duration = None
        /\ span_.duration # None =>
             LET finish_monotonic ==
                   IF hist.finish_hint # 0 THEN hist.finish_hint
                   ELSE hist.finish_clock[1]
             IN  /\ hist.passed = 1
                 /\ TruncatedQuotient(span_.duration[1],
                                      finish_monotonic - start_steady_timestamp_,
                                      NanosPerMicro))
  /\ [][/\ span_'.duration # span_.duration =>
             /\ hist.winner # NoThread
             /\ pc[hist.winner] = "fin_duration"
             /\ pc'[hist.winner] = "fin_lock"
        /\ phase = "live" => start_steady_timestamp_' = start_steady_timestamp_]_vars

\* C8 witness: the reported record of a span finished without a hint, one
\* clock step after it started: 1700 ns, one whole microsecond.
C8_Witness ==
  /\ Len(reporter) = 1
  /\ hist.finish_hint = 0
  /\ hist.finish_clock = Some(7000)
  /\ start_steady_timestamp_ = 5300
  /\ reporter[1].duration = Some(1)

\* The annotation StartSpanWithOptions adds for the local service.
ServiceAnnotation ==
  [key |-> "lc", value |-> "svc",
   endpoint |-> [service_name |-> "svc", address |-> "10.0.0.1:9411"]]

\* C9: every reported record begins with the local-service annotation, holds
\* it exactly once, holds a user tag's annotation only after it, and holds
\* nothing else when the span had no tags.
C9_ServiceAnnotationFirst ==
  \A n \in 1..Len(reporter) :
    LET annotations == reporter[n].annotations
    IN  /\ Len(annotations) >= 1
        /\ annotations[1] = ServiceAnnotation
        /\ \A i \in 2..Len(annotations) :
             annotations[i] # ServiceAnnotation /\ annotations[i].key \in Keys
        /\ hist.flushed[1] = NoTags => Len(annotations) = 1

\* C9 witness: a record reported with two user tags after the service
\* annotation.
C9_Witness ==
  /\ Len(reporter) = 1
  /\ Len(reporter[1].annotations) = 3
  /\ reporter[1].annotations[1].key = "lc"
  /\ reporter[1].annotations[2].key = "k2"
  /\ reporter[1].annotations[3].key = "k1"

\* C10: from construction on, through every SetOperationName, SetTag, finish
\* and teardown, context() returns the ids the record held when the
\* constructor returned, and the record still holds them.
C10_ContextFixed ==
  phase # "none" =>
    /\ context = hist.context0[1]
    /\ context = [trace_id |-> span_.trace_id, id |-> span_.id,
                  parent_id |-> span_.parent_id]
    /\ context.id = hist.id_draws[1]

\* C10 witness: a child span, renamed, tagged, finished explicitly and
\* reported, is being torn down; its context is that of its construction.
C10_Witness ==
  /\ phase = "live"
  /\ \E t \in Threads : pc[t] = "dtor_members"
  /\ ~hist.implicit
  /\ Len(reporter) = 1
  /\ span_.name = "renamed"
  /\ hist.written["k2"] # {}
  /\ context = [trace_id |-> 11, id |-> 1, parent_id |-> Some(12)]

\* Positions inside a critical section, and inside an exception handler.
Locked == {"fin_tags", "tag_write", "name_write"}
Handlers == {"fin_catch", "tag_catch", "name_catch"}

\* C11: a std::bad_alloc thrown inside SetOperationName, SetTag or
\* FinishWithOptions is absorbed. The throwing step is taken by the thread
\* that holds the mutex and leaves the mutex free and the record, the tag map
\* and the reporter's input as they were; the handler then returns to the
\* caller (or to the destructor that called Finish) changing nothing. The
\* mutex is never held by a thread outside a critical section, so no call
\* made afterwards can find it locked for good.
C11_BadAllocAbsorbed ==
  /\ [](/\ \A t \in Threads : pc[t] \in Handlers => mutex_ # t
        /\ mutex_ # NoThread => pc[mutex_] \in Locked)
  /\ [][\A t \in Threads :
          (pc[t] \in Locked /\ pc'[t] \in Handlers)
            => /\ mutex_ = t
               /\ mutex_' = NoThread
               /\ span_' = span_
               /\ tags_' = tags_
               /\ reporter' = reporter
               /\ phase' = phase]_vars
  /\ [][\A t \in Threads :
          (pc[t] \in Handlers /\ pc'[t] # pc[t])
            => /\ pc'[t] = (IF frame[t].in_dtor THEN "dtor_members" ELSE "idle")
               /\ UNCHANGED <<phase, span_, tags_, is_finished_, mutex_,
                              span_context_, reporter>>]_vars

\* C11 witness: thread 1 is in the handler of SetTag after a std::bad_alloc,
\* and thread 2 has since acquired the mutex inside its own SetTag.
C11_Witness ==
  /\ pc[1] = "tag_catch"
  /\ pc[2] = "tag_write"
  /\ mutex_ = 2

\* C12: carrier propagation is a no-op. Every Inject and every Extract
\* returns success; each carrier holds exactly what the other side put into
\* it, so Inject wrote nothing; Extract returns no context whatever the
\* carrier holds; a call of either changes nothing of the span; and a span
\* started from what Extract returned is a trace root with a generated trace
\* id and no parent.
C12_PropagationNoOp ==
  /\ [](/\ carrier = hist.carried
        /\ returned # None
             => /\ returned[1].ok
                /\ returned[1].op = "Inject" => returned[1].value = None
                /\ returned[1].op = "Extract"
                     => returned[1].value = Some(NullContext)
        /\ phase = "live"
             => /\ span_.parent_id = None
                /\ Len(hist.id_draws) = 2
                /\ span_.trace_id = hist.id_draws[2])
  /\ [][returned' # returned
          => UNCHANGED <<phase, span_, tags_, is_finished_, mutex_,
                         span_context_, reporter, carrier>>]_vars

\* C12 witness: the other side wrote both identifiers into the HTTP headers,
\* Extract was called on them, and a span was started as a child of what it
\* returned.
C12_Witness ==
  /\ carrier["http_headers"] = Entries
  /\ returned # None
  /\ returned[1].op = "Extract"
  /\ returned[1].format = "http_headers"
  /\ phase = "live"
  /\ Len(hist.options.references) = 1
  /\ hist.options.references[1].type = "ChildOfRef"

\* C13: once start_span has returned, the record and the tag map are written
\* only by a thread that holds the mutex: every step that changes span_ or
\* tags_ of a live span is a step of the mutex's holder.
C13_MutexGuardsRecord ==
  [][(phase = "live" /\ (span_' # span_ \/ tags_' # tags_))
       => \E t \in Threads : mutex_ = t /\ pc'[t] # pc[t]]_vars

\* C14: the finish-once decision never waits on the mutex. An invocation at
\* the exchange can always take that step, whoever holds the mutex; the step
\* leaves the mutex as it was; and an invocation that reads the flag as set
\* returns in that step, so it never reaches the lock.
C14_ExchangeNeverWaits ==
  /\ [](\A t \in Threads : pc[t] = "fin_exchange" => ENABLED FinishExchange(t))
  /\ [][\A t \in Threads :
          (pc[t] = "fin_exchange" /\ pc'[t] # pc[t])
            => /\ mutex_' = mutex_
               /\ is_finished_ => pc'[t] \in {"idle", "dtor_members"}
               /\ ~is_finished_ => pc'[t] = "fin_duration"]_vars

\* C14 witness: thread 2 holds the mutex inside SetOperationName while the
\* invocation of thread 1 has passed the exchange and written the duration,
\* and only now waits for the mutex.
C14_Witness ==
  /\ mutex_ = 2
  /\ pc[2] = "name_write"
  /\ pc[1] = "fin_lock"
  /\ hist.winner = 1
  /\ span_.duration # None

\* The user-tag annotations of a record as a set of <<key, text>> pairs, and
\* the pairs a tag map stands for.
AnnotatedPairs(record) ==
  {<<record.annotations[i].key, record.annotations[i].value>> :
     i \in UserAnnotations(record)}
MapPairs(tags) ==
  {<<k, ValueToString(tags[k])>> : k \in {j \in Keys : tags[j] # NoValue}}

\* The flush of finish is serialized with the tag writes. When the finishing
\* thread takes the mutex the tag map holds every key a SetTag has written,
\* and that map is what is flushed; while the thread flushes, no SetTag
\* completes and the map does not change; and the user-tag annotations of
\* the reported record are exactly that map, one annotation per key.
SerializedFlush ==
  /\ [][\A t \in Threads :
          (pc[t] = "fin_lock" /\ pc'[t] = "fin_tags")
            => /\ mutex_' = t
               /\ hist'.flushed = Some(tags_)
               /\ \A k \in Keys : hist.written[k] # {} => tags_[k] # NoValue]_vars
  /\ [][\A t \in Threads :
          pc[t] = "fin_tags"
            => tags_' = tags_ /\ hist'.written = hist.written]_vars
  /\ [](\A n \in 1..Len(reporter) :
          /\ AnnotatedPairs(reporter[n]) = MapPairs(hist.flushed[1])
          /\ Cardinality(UserAnnotations(reporter[n]))
               = Cardinality(MapPairs(hist.flushed[1])))

\* C15 as stated: the flush is serialized with the tag writes, and every
\* SetTag that returns has put its value into the tag map under its key, so
\* that one that returned before finish was invoked is in the reported
\* record. Every SetTag leaves its critical section with the map holding its
\* value.
C15_Original ==
  /\ SerializedFlush
  /\ [][\A t \in Threads :
          (pc[t] = "tag_write" /\ pc'[t] # pc[t])
            => tags_'[frame[t].key] = frame[t].value]_vars

\* C15, amended: the flush is serialized with the tag writes, and every
\* SetTag that returns without having swallowed a std::bad_alloc has put its
\* value into the tag map under its key; so a SetTag whose write took place
\* is either wholly in the reported record or wholly absent, and one whose
\* write took place before finish was invoked is in it.
C15_FlushIsAtomic ==
  /\ SerializedFlush
  /\ [][\A t \in Threads :
          (pc[t] = "tag_write" /\ pc'[t] = "idle")
            => tags_'[frame[t].key] = frame[t].value]_vars

\* C15 witness: SetTag of "k1" returned before the flush and is in the
\* reported record; the SetTag of "k2" that thread 2 is still inside took
\* the mutex only after the hand-off and is absent from it.
C15_Witness ==
  /\ Len(reporter) = 1
  /\ hist.options.tags = NoTags
  /\ hist.flushed = Some([k1 |-> "int:7", k2 |-> NoValue])
  /\ AnnotatedPairs(reporter[1]) = {<<"k1", "7">>}
  /\ pc[2] = "tag_write"
  /\ frame[2].key = "k2"

C17_OneIdentityPath ==
  phase # "none" =>
    LET derived == span_.parent_id # None
        generated == Len(hist.id_draws) = 2
        parent == findSpanContext(hist.options.references)
    IN  /\ Len(hist.id_draws) \in {1, 2}
        /\ span_.id = hist.id_draws[1]
        /\ derived # generated
        /\ derived => /\ parent.cls = "ot"
                      /\ span_.trace_id = parent.trace_id
                      /\ span_.parent_id = Some(parent.id)
        /\ generated => span_.trace_id = hist.id_draws[2]

\* C17 witness: a child of a recognised context built with one draw, the
\* draw being neither identifier of the parent.
C17_Witness ==
  /\ phase = "live"
  /\ hist.id_draws = <<2>>
  /\ span_.id = 2
  /\ span_.parent_id = Some(12)
  /\ span_.trace_id = 11
  /\ Len(hist.options.references) >= 2

\* C18: teardown does not complete, and the record, the tag map and the
\* mutex are not released, while a finish invocation that has set the
\* finished flag has not yet handed the record to the reporter: the step
\* that destroys the members is never taken while a thread stands between
\* the exchange it passed and the end of its hand-off.
C18_TeardownAfterHandOff ==
  [][(phase = "live" /\ phase' = "destroyed")
       => \A u \in Threads :
            pc[u] \notin {"fin_duration", "fin_lock", "fin_tags"}]_vars

\* C19: a hint is taken as given exactly when it is not the zero time point.
\* With both start hints zero the start times are the clocks as the
\* constructor read them; a non-zero steady start hint is the steady start
\* time as it stands. A finish invocation with a zero hint reads the steady
\* clock and uses that reading; one with a non-zero hint reads no clock and
\* uses the hint as it stands, so a hint earlier than the steady start time
\* gives a duration that is not positive, and negative once the hint is a
\* whole microsecond early: nothing is clamped.
C19_ZeroHintIsAbsent ==
  phase # "none" =>
    LET wall_hint == hist.options.start_system_timestamp
        mono_hint == hist.options.start_steady_timestamp
    IN  /\ (wall_hint = 0 /\ mono_hint = 0) =>
             /\ start_steady_timestamp_ = hist.start_clocks[2]
             /\ TruncatedQuotient(span_.timestamp, hist.start_clocks[1],
                                  NanosPerMicro)
        /\ mono_hint # 0 => start_steady_timestamp_ = mono_hint
        /\ (wall_hint # 0 /\ mono_hint # 0) =>
             TruncatedQuotient(span_.timestamp, wall_hint, NanosPerMicro)
        /\ span_.duration # None =>
             LET d == span_.duration[1]
                 hint == hist.finish_hint
             IN  IF hint = 0
                   THEN /\ hist.finish_clock # None
                        /\ TruncatedQuotient(
                             d, hist.finish_clock[1] - start_steady_timestamp_,
                             NanosPerMicro)
                   ELSE /\ hist.finish_clock = None
                        /\ TruncatedQuotient(d, hint - start_steady_timestamp_,
                                             NanosPerMicro)
                        /\ hint < start_steady_timestamp_ => d <= 0
                        /\ hint + NanosPerMicro <= start_steady_timestamp_
                             => d < 0

\* C19 witness: a span started with the steady hint 7900 and finished with
\* the hint 6400 was reported with a duration of -1 microsecond.
C19_Witness ==
  /\ Len(reporter) = 1
  /\ hist.options.start_steady_timestamp = 7900
  /\ hist.finish_hint = 6400
  /\ reporter[1].duration = Some(-1)

====
